---- MODULE Spec2Model ----
(***************************************************************************)
(* Rural health platform backend (FastAPI handlers over a document store). *)
(* The collections are sequences of documents in insertion order; every    *)
(* handler is an action per store call, so that requests served by         *)
(* different workers interleave between their store calls.                 *)
(***************************************************************************)
EXTENDS Integers, Sequences, FiniteSets, TLC

VARIABLES
    appointment,   \* db["appointment"]
    stock,         \* db["stock"]
    user,          \* db["user"]
    healthrecord,  \* db["healthrecord"]
    medicine,      \* db["medicine"]
    nextId,        \* the next ObjectId the store hands out
    now,           \* datetime.utcnow(), in ticks
    req            \* per worker: the request it serves and its response

vars == <<appointment, stock, user, healthrecord, medicine, nextId, now, req>>

(* ------------------------------ bounds -------------------------------- *)
NProcs == 2        \* workers serving requests in parallel
MaxApptDocs == 3   \* appointments admitted to the store
MaxBatch == 2      \* items of one bulk_sync payload
MaxTime == 2       \* last tick of the clock
MaxStockDocs == 2  \* stock rows admitted to the store
MaxUserDocs == 2   \* users admitted to the store
MaxRaceDocs == 1   \* stock rows created while patches race
MaxListDocs == 2   \* documents admitted while listings are checked
MaxLimit == 2      \* largest explicit limit parameter
MaxClock == 4      \* last tick of the clock of the analytics runs
MaxDays == 2       \* largest explicit lookback, in days
TicksPerDay == 2   \* clock ticks in a calendar day
MaxShortTime == 1  \* last tick of the clock where two timestamps suffice

\* the default of each limit parameter
list_appointments_limit == 50
search_medicines_limit == 20
list_stock_limit == 100
list_users_limit == 100
list_health_records_limit == 50

\* the default lookback of analytics_summary
analytics_summary_days == 7

\* datetime.min and datetime.max, far from every clock value
DatetimeMin == 0 - 4 * MaxClock * TicksPerDay
DatetimeMax == 4 * MaxClock * TicksPerDay

Procs == 1..NProcs
One == {1}

(* ------------------------------ values -------------------------------- *)
None == "None"            \* Python None
Missing == "<missing>"    \* a required field absent from the JSON body
Idle == [op |-> "idle", pc |-> "idle"]

\* Python truthiness of an Optional[str] query parameter
Truthy(x) == x # None /\ x # ""

\* {**d, **p}: the fields of p merged over those of d
Merge(d, p) == [f \in (DOMAIN d) \cup (DOMAIN p) |-> IF f \in DOMAIN p THEN p[f] ELSE d[f]]

\* str(ObjectId): the 24-digit hex rendering of an identifier
StrOfOid(n) == [hex |-> TRUE, n |-> n]
\* a path parameter that is no 24-digit hex string
BadIdStr == [hex |-> FALSE, n |-> 0]
\* bson.ObjectId(s): InvalidId unless s is a 24-digit hex string
ObjectIdOk(s) == s.hex
ObjectId(s) == s.n

Range(s) == {s[i] : i \in 1..Len(s)}

(* ------------------------ document store adapter ---------------------- *)
\* create_document(kind, data): the document inserted for a validated entity
NewDocument(data) == Merge(data, [_id |-> nextId, created_at |-> now, updated_at |-> now])

\* documents admitted so far plus the inserts the requests in flight may still do
RECURSIVE PendingOf(_)
PendingOf(S) ==
    IF S = {} THEN 0
    ELSE LET p == CHOOSE x \in S : TRUE
             n == IF req[p].pc = "store" THEN 1
                  ELSE IF req[p].pc = "loop" THEN Len(req[p].batch) - req[p].i + 1
                  ELSE 0
         IN n + PendingOf(S \ {p})
Admitted == nextId - 1 + PendingOf(Procs)

(* ------------------------------ schemas ------------------------------- *)
\* Appointment: patient_id and doctor_id are required strings
ValidAppointment(a) == a.patient_id # Missing /\ a.doctor_id # Missing

(* --------------------------- create_appointment ----------------------- *)
\* POST /api/appointments: FastAPI validates the body, then the handler runs
create_appointment_call(p, a, max) ==
    /\ req[p].op = "idle"
    /\ Admitted < max
    /\ req' = [req EXCEPT ![p] =
                 IF ValidAppointment(a)
                 THEN [op |-> "create_appointment", pc |-> "store", appt |-> a,
                       \* the requests in flight when this one arrived
                       conc |-> {q \in Procs : req[q].pc = "store"}]
                 ELSE [op |-> "create_appointment", pc |-> "done", appt |-> a,
                       conc |-> {}, failed |-> FALSE, resp |-> [status |-> 422]]]
    /\ UNCHANGED <<appointment, stock, user, healthrecord, medicine, nextId, now>>

create_appointment_swallow(p, fail) ==
    /\ req[p].op = "create_appointment" /\ req[p].pc = "store"
    /\ IF fail
       THEN /\ req' = [req EXCEPT ![p] = [op |-> "create_appointment", pc |-> "done",
                         appt |-> req[p].appt, conc |-> req[p].conc, failed |-> TRUE,
                         resp |-> [status |-> 201, id |-> StrOfOid(0), body |-> "created"]]]
            /\ UNCHANGED <<appointment, nextId>>
       ELSE /\ appointment' = Append(appointment, NewDocument(req[p].appt))
            /\ nextId' = nextId + 1
            /\ req' = [req EXCEPT ![p] = [op |-> "create_appointment", pc |-> "done",
                         appt |-> req[p].appt, conc |-> req[p].conc, failed |-> FALSE,
                         resp |-> [status |-> 201, id |-> StrOfOid(nextId), body |-> "created"]]]
    /\ UNCHANGED <<stock, user, healthrecord, medicine, now>>

\* the handler body: create_document, then 201 with the id, or 500 on an exception
create_appointment_store(p, fail) ==
    /\ req[p].op = "create_appointment" /\ req[p].pc = "store"
    /\ IF fail
       THEN /\ req' = [req EXCEPT ![p] = [op |-> "create_appointment", pc |-> "done",
                         appt |-> req[p].appt, conc |-> req[p].conc, failed |-> TRUE,
                         resp |-> [status |-> 500]]]
            /\ UNCHANGED <<appointment, nextId>>
       ELSE /\ appointment' = Append(appointment, NewDocument(req[p].appt))
            /\ nextId' = nextId + 1
            /\ req' = [req EXCEPT ![p] = [op |-> "create_appointment", pc |-> "done",
                         appt |-> req[p].appt, conc |-> req[p].conc, failed |-> FALSE,
                         resp |-> [status |-> 201, id |-> StrOfOid(nextId), body |-> "created"]]]
    /\ UNCHANGED <<stock, user, healthrecord, medicine, now>>

(* ------------------------------- bulk_sync ---------------------------- *)
\* POST /api/appointments/bulk_sync: the payload List[Appointment] is validated
\* as a whole before the handler runs
bulk_sync_call(p, batch, max) ==
    /\ req[p].op = "idle"
    /\ Admitted + Len(batch) <= max
    /\ req' = [req EXCEPT ![p] =
                 IF \A k \in 1..Len(batch) : ValidAppointment(batch[k])
                 THEN [op |-> "bulk_sync", pc |-> "loop", batch |-> batch, i |-> 1,
                       ok |-> <<>>, inserted |-> <<>>, errors |-> <<>>]
                 ELSE [op |-> "bulk_sync", pc |-> "done", batch |-> batch, i |-> 1,
                       ok |-> <<>>, inserted |-> <<>>, errors |-> <<>>,
                       resp |-> [status |-> 422]]]
    /\ UNCHANGED <<appointment, stock, user, healthrecord, medicine, nextId, now>>

bulk_sync_item_abort(p, fail) ==
    /\ req[p].op = "bulk_sync" /\ req[p].pc = "loop"
    /\ req[p].i <= Len(req[p].batch)
    /\ LET a == req[p].batch[req[p].i] IN
       IF fail
       THEN /\ req' = [req EXCEPT ![p] = Merge(req[p],
                         [pc |-> "done", ok |-> Append(req[p].ok, FALSE),
                          resp |-> [status |-> 500]])]
            /\ UNCHANGED <<appointment, nextId>>
       ELSE /\ appointment' = Append(appointment, NewDocument(a))
            /\ nextId' = nextId + 1
            /\ req' = [req EXCEPT ![p].i = @ + 1,
                                  ![p].ok = Append(@, TRUE),
                                  ![p].inserted = Append(@,
                                      [offline_temp_id |-> a.offline_temp_id,
                                       id |-> StrOfOid(nextId)])]
    /\ UNCHANGED <<stock, user, healthrecord, medicine, now>>

\* one iteration of the loop: create_document inside try/except
bulk_sync_item(p, fail) ==
    /\ req[p].op = "bulk_sync" /\ req[p].pc = "loop"
    /\ req[p].i <= Len(req[p].batch)
    /\ LET a == req[p].batch[req[p].i] IN
       IF fail
       THEN /\ req' = [req EXCEPT ![p].i = @ + 1,
                                  ![p].ok = Append(@, FALSE),
                                  ![p].errors = Append(@,
                                      [offline_temp_id |-> a.offline_temp_id,
                                       error |-> "StoreError"])]
            /\ UNCHANGED <<appointment, nextId>>
       ELSE /\ appointment' = Append(appointment, NewDocument(a))
            /\ nextId' = nextId + 1
            /\ req' = [req EXCEPT ![p].i = @ + 1,
                                  ![p].ok = Append(@, TRUE),
                                  ![p].inserted = Append(@,
                                      [offline_temp_id |-> a.offline_temp_id,
                                       id |-> StrOfOid(nextId)])]
    /\ UNCHANGED <<stock, user, healthrecord, medicine, now>>

\* return {"inserted": inserted, "errors": errors}
bulk_sync_return(p) ==
    /\ req[p].op = "bulk_sync" /\ req[p].pc = "loop"
    /\ req[p].i > Len(req[p].batch)
    /\ req' = [req EXCEPT ![p] = Merge(req[p],
                 [pc |-> "done",
                  resp |-> [status |-> 200, inserted |-> req[p].inserted,
                            errors |-> req[p].errors]])]
    /\ UNCHANGED <<appointment, stock, user, healthrecord, medicine, nextId, now>>

(* ------------------------------ create_stock ------------------------- *)
\* Stock: quantity: int = Field(..., ge=0), threshold: int = Field(0, ge=0)
ValidStock(s) == s.quantity >= 0 /\ s.threshold >= 0

\* POST /api/stock: FastAPI validates the body, then the handler runs
create_stock_call(p, s, max) ==
    /\ req[p].op = "idle"
    /\ Admitted < max
    /\ req' = [req EXCEPT ![p] =
                 IF ValidStock(s)
                 THEN [op |-> "create_stock", pc |-> "store", stock |-> s]
                 ELSE [op |-> "create_stock", pc |-> "done", stock |-> s,
                       failed |-> FALSE, resp |-> [status |-> 422]]]
    /\ UNCHANGED <<appointment, stock, user, healthrecord, medicine, nextId, now>>

\* the handler body: create_document, then 201 with the id, or 500 on an exception
create_stock_store(p, fail) ==
    /\ req[p].op = "create_stock" /\ req[p].pc = "store"
    /\ IF fail
       THEN /\ req' = [req EXCEPT ![p] = [op |-> "create_stock", pc |-> "done",
                         stock |-> req[p].stock, failed |-> TRUE,
                         resp |-> [status |-> 500]]]
            /\ UNCHANGED <<stock, nextId>>
       ELSE /\ stock' = Append(stock, NewDocument(req[p].stock))
            /\ nextId' = nextId + 1
            /\ req' = [req EXCEPT ![p] = [op |-> "create_stock", pc |-> "done",
                         stock |-> req[p].stock, failed |-> FALSE,
                         resp |-> [status |-> 201, id |-> StrOfOid(nextId)]]]
    /\ UNCHANGED <<appointment, user, healthrecord, medicine, now>>

(* ------------------------------ update_stock -------------------------- *)
\* the positions of the documents of a collection with the given _id
Matching(coll, oid) == {i \in 1..Len(coll) : coll[i]._id = oid}

\* the requests whose read-back of document oid of collection kind is pending
\* learn what an update of another request has just set
Overwritten(r, kind, oid, set) ==
    IF r.pc = "readback" /\ r.kind = kind /\ ObjectId(r.id) = oid
    THEN [r EXCEPT !.seen = Merge(@, set)]
    ELSE r

\* PATCH /api/stock/{stock_id}: the body is any JSON object
update_stock_call(p, stock_id, data) ==
    /\ req[p].op = "idle"
    /\ req' = [req EXCEPT ![p] = [op |-> "update_stock", pc |-> "update", kind |-> "stock",
                                  id |-> stock_id, data |-> data]]
    /\ UNCHANGED <<appointment, stock, user, healthrecord, medicine, nextId, now>>

UpdateDone(r, status, failed) ==
    [op |-> r.op, pc |-> "done", kind |-> r.kind, id |-> r.id, data |-> r.data,
     failed |-> failed, resp |-> [status |-> status]]

\* ObjectId(stock_id), then update_one({"_id": ...}, {"$set": {**data, "updated_at": now}})
\* and the matched_count test
update_stock_update(p, fail) ==
    /\ req[p].op = "update_stock" /\ req[p].pc = "update"
    /\ LET r == req[p]
           set == Merge(r.data, [updated_at |-> now])
       IN
       IF ~ObjectIdOk(r.id)
       THEN \* bson.errors.InvalidId, caught by except Exception
            /\ req' = [req EXCEPT ![p] = UpdateDone(r, 500, FALSE)]
            /\ UNCHANGED stock
       ELSE IF fail
       THEN /\ req' = [req EXCEPT ![p] = UpdateDone(r, 500, TRUE)]
            /\ UNCHANGED stock
       ELSE IF Matching(stock, ObjectId(r.id)) = {}
       THEN /\ req' = [req EXCEPT ![p] = UpdateDone(r, 404, FALSE)]
            /\ UNCHANGED stock
       ELSE IF "_id" \in DOMAIN r.data
       THEN \* WriteError: _id is immutable
            /\ req' = [req EXCEPT ![p] = UpdateDone(r, 500, FALSE)]
            /\ UNCHANGED stock
       ELSE LET i == CHOOSE x \in Matching(stock, ObjectId(r.id)) : TRUE IN
            /\ stock' = [stock EXCEPT ![i] = Merge(@, set)]
            /\ req' = [q \in Procs |->
                         IF q = p
                         THEN [op |-> r.op, pc |-> "readback", kind |-> r.kind, id |-> r.id,
                               data |-> r.data, at |-> now, seen |-> <<>>]
                         ELSE Overwritten(req[q], "stock", ObjectId(r.id), set)]
    /\ UNCHANGED <<appointment, user, healthrecord, medicine, nextId, now>>

\* the response of a patch: the document with its _id stringified
Stringified(doc) == [doc EXCEPT !._id = StrOfOid(@)]

ReadBackDone(r, resp, failed) ==
    [op |-> r.op, pc |-> "done", kind |-> r.kind, id |-> r.id, data |-> r.data,
     at |-> r.at, seen |-> r.seen, failed |-> failed, resp |-> resp]

update_stock_merged(p, fail) ==
    /\ req[p].op = "update_stock" /\ req[p].pc = "readback"
    /\ LET r == req[p]
           i == CHOOSE x \in Matching(stock, ObjectId(r.id)) : TRUE
       IN req' = [req EXCEPT ![p] =
                    IF fail THEN ReadBackDone(r, [status |-> 500], TRUE)
                    ELSE ReadBackDone(r, [status |-> 200,
                           doc |-> Stringified(Merge(stock[i], Merge([updated_at |-> r.at], r.data)))],
                           FALSE)]
    /\ UNCHANGED <<appointment, stock, user, healthrecord, medicine, nextId, now>>

\* doc = find_one({"_id": ...}); doc["_id"] = str(doc["_id"]); return doc
update_stock_readback(p, fail) ==
    /\ req[p].op = "update_stock" /\ req[p].pc = "readback"
    /\ LET r == req[p]
           i == CHOOSE x \in Matching(stock, ObjectId(r.id)) : TRUE
       IN req' = [req EXCEPT ![p] =
                    IF fail THEN ReadBackDone(r, [status |-> 500], TRUE)
                    ELSE ReadBackDone(r, [status |-> 200, doc |-> Stringified(stock[i])], FALSE)]
    /\ UNCHANGED <<appointment, stock, user, healthrecord, medicine, nextId, now>>

(* ------------------------------ create_user -------------------------- *)
\* Role = Literal["patient", "doctor", "hospital", "government", "admin"]
Role == {"patient", "doctor", "hospital", "government", "admin"}

\* User: role is required and one of Role
ValidUser(u) == u.role \in Role

\* User.online_status: Optional[bool] = Field(default=False)
UserDefaults == [online_status |-> FALSE]

\* POST /api/users: FastAPI validates the body, then the handler runs
create_user_call(p, u, max) ==
    /\ req[p].op = "idle"
    /\ Admitted < max
    /\ req' = [req EXCEPT ![p] =
                 IF ValidUser(u)
                 THEN [op |-> "create_user", pc |-> "store", user |-> Merge(UserDefaults, u)]
                 ELSE [op |-> "create_user", pc |-> "done", user |-> u,
                       failed |-> FALSE, resp |-> [status |-> 422]]]
    /\ UNCHANGED <<appointment, stock, user, healthrecord, medicine, nextId, now>>

\* the handler body: create_document, then 201 with the id, or 500 on an exception
create_user_store(p, fail) ==
    /\ req[p].op = "create_user" /\ req[p].pc = "store"
    /\ IF fail
       THEN /\ req' = [req EXCEPT ![p] = [op |-> "create_user", pc |-> "done",
                         user |-> req[p].user, failed |-> TRUE,
                         resp |-> [status |-> 500]]]
            /\ UNCHANGED <<user, nextId>>
       ELSE /\ user' = Append(user, NewDocument(req[p].user))
            /\ nextId' = nextId + 1
            /\ req' = [req EXCEPT ![p] = [op |-> "create_user", pc |-> "done",
                         user |-> req[p].user, failed |-> FALSE,
                         resp |-> [status |-> 201, id |-> StrOfOid(nextId)]]]
    /\ UNCHANGED <<appointment, stock, healthrecord, medicine, now>>

(* ----------------------- update_doctor_availability ------------------- *)
\* AvailabilityPayload: online_status: bool is required; other keys of the
\* body are dropped by the model
ValidAvailability(body) == "online_status" \in DOMAIN body /\ body.online_status \in BOOLEAN

\* PATCH /api/doctors/{user_id}/availability
update_doctor_availability_call(p, user_id, body) ==
    /\ req[p].op = "idle"
    /\ req' = [req EXCEPT ![p] =
                 IF ValidAvailability(body)
                 THEN [op |-> "update_doctor_availability", pc |-> "update", kind |-> "user",
                       id |-> user_id, data |-> body]
                 ELSE [op |-> "update_doctor_availability", pc |-> "done", kind |-> "user",
                       id |-> user_id, data |-> body, failed |-> FALSE,
                       resp |-> [status |-> 422]]]
    /\ UNCHANGED <<appointment, stock, user, healthrecord, medicine, nextId, now>>

update_doctor_availability_untyped(p, fail) ==
    /\ req[p].op = "update_doctor_availability" /\ req[p].pc = "update"
    /\ LET r == req[p]
           set == Merge(r.data, [updated_at |-> now])
       IN
       IF ~ObjectIdOk(r.id)
       THEN /\ req' = [req EXCEPT ![p] = UpdateDone(r, 500, FALSE)]
            /\ UNCHANGED user
       ELSE IF fail
       THEN /\ req' = [req EXCEPT ![p] = UpdateDone(r, 500, TRUE)]
            /\ UNCHANGED user
       ELSE IF Matching(user, ObjectId(r.id)) = {}
       THEN /\ req' = [req EXCEPT ![p] = UpdateDone(r, 404, FALSE)]
            /\ UNCHANGED user
       ELSE LET i == CHOOSE x \in Matching(user, ObjectId(r.id)) : TRUE IN
            /\ user' = [user EXCEPT ![i] = Merge(@, set)]
            /\ req' = [q \in Procs |->
                         IF q = p
                         THEN [op |-> r.op, pc |-> "readback", kind |-> r.kind, id |-> r.id,
                               data |-> r.data, at |-> now, seen |-> <<>>]
                         ELSE Overwritten(req[q], "user", ObjectId(r.id), set)]
    /\ UNCHANGED <<appointment, stock, healthrecord, medicine, nextId, now>>

\* ObjectId(user_id), then update_one({"_id": ...}, {"$set": {"online_status":
\* payload.online_status, "updated_at": now}}) and the matched_count test
update_doctor_availability_update(p, fail) ==
    /\ req[p].op = "update_doctor_availability" /\ req[p].pc = "update"
    /\ LET r == req[p]
           set == [online_status |-> r.data.online_status, updated_at |-> now]
       IN
       IF ~ObjectIdOk(r.id)
       THEN /\ req' = [req EXCEPT ![p] = UpdateDone(r, 500, FALSE)]
            /\ UNCHANGED user
       ELSE IF fail
       THEN /\ req' = [req EXCEPT ![p] = UpdateDone(r, 500, TRUE)]
            /\ UNCHANGED user
       ELSE IF Matching(user, ObjectId(r.id)) = {}
       THEN /\ req' = [req EXCEPT ![p] = UpdateDone(r, 404, FALSE)]
            /\ UNCHANGED user
       ELSE LET i == CHOOSE x \in Matching(user, ObjectId(r.id)) : TRUE IN
            /\ user' = [user EXCEPT ![i] = Merge(@, set)]
            /\ req' = [q \in Procs |->
                         IF q = p
                         THEN [op |-> r.op, pc |-> "readback", kind |-> r.kind, id |-> r.id,
                               data |-> r.data, at |-> now, seen |-> <<>>]
                         ELSE Overwritten(req[q], "user", ObjectId(r.id), set)]
    /\ UNCHANGED <<appointment, stock, healthrecord, medicine, nextId, now>>

\* doc = find_one({"_id": ...}); doc["_id"] = str(doc["_id"]); return doc
update_doctor_availability_readback(p, fail) ==
    /\ req[p].op = "update_doctor_availability" /\ req[p].pc = "readback"
    /\ LET r == req[p]
           i == CHOOSE x \in Matching(user, ObjectId(r.id)) : TRUE
       IN req' = [req EXCEPT ![p] =
                    IF fail THEN ReadBackDone(r, [status |-> 500], TRUE)
                    ELSE ReadBackDone(r, [status |-> 200, doc |-> Stringified(user[i])], FALSE)]
    /\ UNCHANGED <<appointment, stock, user, healthrecord, medicine, nextId, now>>

(* ------------------------- create_health_record ----------------------- *)
\* HealthRecord: patient_id and visit_date are required
ValidHealthRecord(h) == h.patient_id # Missing /\ "visit_date" \in DOMAIN h

\* POST /api/records: FastAPI validates the body, then the handler runs
create_health_record_call(p, h, max) ==
    /\ req[p].op = "idle"
    /\ Admitted < max
    /\ req' = [req EXCEPT ![p] =
                 IF ValidHealthRecord(h)
                 THEN [op |-> "create_health_record", pc |-> "store", rec |-> h]
                 ELSE [op |-> "create_health_record", pc |-> "done", rec |-> h,
                       failed |-> FALSE, resp |-> [status |-> 422]]]
    /\ UNCHANGED <<appointment, stock, user, healthrecord, medicine, nextId, now>>

\* the handler body: create_document, then 201 with the id, or 500 on an exception
create_health_record_store(p, fail) ==
    /\ req[p].op = "create_health_record" /\ req[p].pc = "store"
    /\ IF fail
       THEN /\ req' = [req EXCEPT ![p] = [op |-> "create_health_record", pc |-> "done",
                         rec |-> req[p].rec, failed |-> TRUE, resp |-> [status |-> 500]]]
            /\ UNCHANGED <<healthrecord, nextId>>
       ELSE /\ healthrecord' = Append(healthrecord, NewDocument(req[p].rec))
            /\ nextId' = nextId + 1
            /\ req' = [req EXCEPT ![p] = [op |-> "create_health_record", pc |-> "done",
                         rec |-> req[p].rec, failed |-> FALSE,
                         resp |-> [status |-> 201, id |-> StrOfOid(nextId)]]]
    /\ UNCHANGED <<appointment, stock, user, medicine, now>>

(* ------------------------------ cursors ------------------------------- *)
\* the filter a handler builds: a clause for every parameter that is truthy
\* (if patient_id: filt["patient_id"] = patient_id)
FilterOf(params) == [f \in {g \in DOMAIN params : Truthy(params[g])} |-> params[f]]

\* a document satisfies an exact-match filter
Matches(d, filt) == \A f \in DOMAIN filt : f \in DOMAIN d /\ d[f] = filt[f]

RECURSIVE Find(_, _)
\* collection.find(filt): the matching documents in natural order
Find(coll, filt) ==
    IF coll = <<>> THEN <<>>
    ELSE IF Matches(Head(coll), filt) THEN <<Head(coll)>> \o Find(Tail(coll), filt)
    ELSE Find(Tail(coll), filt)

\* the orders cursor.sort(key, -1) may return: descending by key, documents
\* of equal key in any order
SortDesc(docs, key) ==
    {s \in [1..Len(docs) -> Range(docs)] :
        /\ \A d \in Range(docs) : \E i \in 1..Len(s) : s[i] = d
        /\ \A i \in 1..Len(s) - 1 : s[i][key] >= s[i + 1][key]}

\* cursor.limit(n): 0 is no limit, a negative n is a limit of -n
Limit(docs, n) ==
    IF n = 0 THEN docs
    ELSE LET m == IF n < 0 THEN 0 - n ELSE n
         IN SubSeq(docs, 1, IF m < Len(docs) THEN m ELSE Len(docs))

\* for it in items: it["_id"] = str(it["_id"])
StringifyAll(docs) == [i \in 1..Len(docs) |-> Stringified(docs[i])]

ListDone(op, args, failed, resp) ==
    [op |-> op, pc |-> "done", args |-> args, failed |-> failed, resp |-> resp]

(* --------------------------- list_appointments ------------------------ *)
\* GET /api/appointments
list_appointments(p, patient_id, doctor_id, limit, fail) ==
    /\ req[p].op = "idle"
    /\ LET args == [patient_id |-> patient_id, doctor_id |-> doctor_id, limit |-> limit]
           filt == FilterOf([patient_id |-> patient_id, doctor_id |-> doctor_id])
       IN IF fail
          THEN req' = [req EXCEPT ![p] = ListDone("list_appointments", args, TRUE, [status |-> 500])]
          ELSE \E sorted \in SortDesc(Find(appointment, filt), "created_at") :
                  req' = [req EXCEPT ![p] = ListDone("list_appointments", args, FALSE,
                            [status |-> 200, items |-> StringifyAll(Limit(sorted, limit))])]
    /\ UNCHANGED <<appointment, stock, user, healthrecord, medicine, nextId, now>>

(* ---------------------------- search_medicines ------------------------ *)
\* re.IGNORECASE over the letters the catalogue uses
Lower(c) == IF c = "P" THEN "p" ELSE IF c = "A" THEN "a" ELSE c
LowerAll(t) == [i \in 1..Len(t) |-> Lower(t[i])]

\* {"$regex": q, "$options": "i"} for a q of plain letters: q occurs in the
\* text, case ignored; a null field matches nothing
RegexI(field, q) ==
    /\ field.some
    /\ \E i \in 1..(Len(field.s) - Len(q) + 1) :
          SubSeq(LowerAll(field.s), i, i + Len(q) - 1) = LowerAll(q)

RECURSIVE FindMedicines(_, _)
\* find({"$or": [name ~ q, generic_name ~ q]}), or find({}) without q
FindMedicines(coll, q) ==
    IF coll = <<>> THEN <<>>
    ELSE IF (~q.some) \/ q.s = <<>> \/ RegexI(Head(coll).name, q.s)
            \/ RegexI(Head(coll).generic_name, q.s)
    THEN <<Head(coll)>> \o FindMedicines(Tail(coll), q)
    ELSE FindMedicines(Tail(coll), q)

\* GET /api/medicines/search
search_medicines(p, q, limit, fail) ==
    /\ req[p].op = "idle"
    /\ LET args == [q |-> q, limit |-> limit] IN
       req' = [req EXCEPT ![p] =
                 IF fail THEN ListDone("search_medicines", args, TRUE, [status |-> 500])
                 ELSE ListDone("search_medicines", args, FALSE,
                        [status |-> 200,
                         items |-> StringifyAll(Limit(FindMedicines(medicine, q), limit))])]
    /\ UNCHANGED <<appointment, stock, user, healthrecord, medicine, nextId, now>>

(* ------------------------------ list_stock ---------------------------- *)
\* GET /api/stock
list_stock(p, facility_id, medicine_id, limit, fail) ==
    /\ req[p].op = "idle"
    /\ LET args == [facility_id |-> facility_id, medicine_id |-> medicine_id, limit |-> limit]
           filt == FilterOf([facility_id |-> facility_id, medicine_id |-> medicine_id])
       IN req' = [req EXCEPT ![p] =
                    IF fail THEN ListDone("list_stock", args, TRUE, [status |-> 500])
                    ELSE ListDone("list_stock", args, FALSE,
                           [status |-> 200,
                            items |-> StringifyAll(Limit(Find(stock, filt), limit))])]
    /\ UNCHANGED <<appointment, stock, user, healthrecord, medicine, nextId, now>>

(* ------------------------------ check_stock --------------------------- *)
\* get_documents(kind, filt): every matching document
get_documents(coll, filt) == Find(coll, filt)

\* GET /api/stock/check
check_stock(p, medicine_id, facility_id, fail) ==
    /\ req[p].op = "idle"
    /\ LET args == [facility_id |-> facility_id, medicine_id |-> medicine_id]
           filt == FilterOf([medicine_id |-> medicine_id, facility_id |-> facility_id])
       IN req' = [req EXCEPT ![p] =
                    IF fail THEN ListDone("check_stock", args, TRUE, [status |-> 500])
                    ELSE ListDone("check_stock", args, FALSE,
                           [status |-> 200,
                            items |-> StringifyAll(get_documents(stock, filt))])]
    /\ UNCHANGED <<appointment, stock, user, healthrecord, medicine, nextId, now>>

(* ------------------------------ list_users ---------------------------- *)
\* GET /api/users
list_users(p, role, limit, fail) ==
    /\ req[p].op = "idle"
    /\ LET args == [role |-> role, limit |-> limit]
           filt == FilterOf([role |-> role])
       IN req' = [req EXCEPT ![p] =
                    IF fail THEN ListDone("list_users", args, TRUE, [status |-> 500])
                    ELSE ListDone("list_users", args, FALSE,
                           [status |-> 200,
                            items |-> StringifyAll(Limit(Find(user, filt), limit))])]
    /\ UNCHANGED <<appointment, stock, user, healthrecord, medicine, nextId, now>>

(* -------------------------- list_health_records ----------------------- *)
\* GET /api/records
list_health_records(p, patient_id, doctor_id, limit, fail) ==
    /\ req[p].op = "idle"
    /\ LET args == [patient_id |-> patient_id, doctor_id |-> doctor_id, limit |-> limit]
           filt == FilterOf([patient_id |-> patient_id, doctor_id |-> doctor_id])
       IN IF fail
          THEN req' = [req EXCEPT ![p] = ListDone("list_health_records", args, TRUE, [status |-> 500])]
          ELSE \E sorted \in SortDesc(Find(healthrecord, filt), "visit_date") :
                  req' = [req EXCEPT ![p] = ListDone("list_health_records", args, FALSE,
                            [status |-> 200, items |-> StringifyAll(Limit(sorted, limit))])]
    /\ UNCHANGED <<appointment, stock, user, healthrecord, medicine, nextId, now>>

(* ---------------------------- analytics_summary ----------------------- *)
\* $dateToString "%Y-%m-%d" of a timestamp: its UTC calendar day
DateToString(t) == t \div TicksPerDay

\* the datetime values Python can represent; now - timedelta(days) outside
\* them raises OverflowError
Representable(t) == DatetimeMin <= t /\ t <= DatetimeMax

\* $group by key with {"$sum": 1}: one row per key value that occurs
GroupCount(docs, keys) ==
    {[_id |-> k, count |-> Cardinality({i \in 1..Len(docs) : keys[i] = k})] :
        k \in {keys[i] : i \in 1..Len(docs)}}

RECURSIVE SortAscById(_)
\* {"$sort": {"_id": 1}} over rows of distinct _id
SortAscById(rows) ==
    IF rows = {} THEN <<>>
    ELSE LET m == CHOOSE r \in rows : \A o \in rows : r._id <= o._id
         IN <<m>> \o SortAscById(rows \ {m})

\* the orders {"$sort": {"count": -1}} may return: rows of equal count in any order
SortDescByCount(rows) ==
    {s \in [1..Cardinality(rows) -> rows] :
        /\ \A r \in rows : \E i \in 1..Len(s) : s[i] = r
        /\ \A i \in 1..Len(s) - 1 : s[i].count >= s[i + 1].count}

\* x["date"] = x.pop("_id") and x["role"] = x.pop("_id")
AsDate(rows) == [i \in 1..Len(rows) |-> [date |-> rows[i]._id, count |-> rows[i].count]]
AsRole(rows) == [i \in 1..Len(rows) |-> [role |-> rows[i]._id, count |-> rows[i].count]]

RECURSIVE MatchSince(_, _)
\* {"$match": {"created_at": {"$gte": since}}}
MatchSince(coll, since) ==
    IF coll = <<>> THEN <<>>
    ELSE IF Head(coll).created_at >= since THEN <<Head(coll)>> \o MatchSince(Tail(coll), since)
    ELSE MatchSince(Tail(coll), since)

RECURSIVE MatchAfter(_, _)
MatchAfter(coll, since) ==
    IF coll = <<>> THEN <<>>
    ELSE IF Head(coll).created_at > since THEN <<Head(coll)>> \o MatchAfter(Tail(coll), since)
    ELSE MatchAfter(Tail(coll), since)

AnalyticsDone(args, failed, resp) ==
    [op |-> "analytics_summary", pc |-> "done", args |-> args, failed |-> failed, resp |-> resp]

analytics_summary_strict(p, days, fail) ==
    /\ req[p].op = "idle"
    /\ LET args == [days |-> days, at |-> now]
           since == now - days * TicksPerDay
       IN
       IF ~Representable(since) \/ fail
       THEN req' = [req EXCEPT ![p] = AnalyticsDone(args, fail, [status |-> 500])]
       ELSE LET matched == MatchAfter(appointment, since)
                series == SortAscById(GroupCount(matched,
                             [i \in 1..Len(matched) |-> DateToString(matched[i].created_at)]))
            IN \E roles \in SortDescByCount(GroupCount(user, [i \in 1..Len(user) |-> user[i].role])) :
                  req' = [req EXCEPT ![p] = AnalyticsDone(args, FALSE,
                            [status |-> 200, appointments |-> AsDate(series),
                             users_by_role |-> AsRole(roles)])]
    /\ UNCHANGED <<appointment, stock, user, healthrecord, medicine, nextId, now>>

\* GET /api/analytics/summary
analytics_summary(p, days, fail) ==
    /\ req[p].op = "idle"
    /\ LET args == [days |-> days, at |-> now]
           since == now - days * TicksPerDay
       IN
       IF ~Representable(since) \/ fail
       THEN req' = [req EXCEPT ![p] = AnalyticsDone(args, fail, [status |-> 500])]
       ELSE LET matched == MatchSince(appointment, since)
                series == SortAscById(GroupCount(matched,
                             [i \in 1..Len(matched) |-> DateToString(matched[i].created_at)]))
            IN \E roles \in SortDescByCount(GroupCount(user, [i \in 1..Len(user) |-> user[i].role])) :
                  req' = [req EXCEPT ![p] = AnalyticsDone(args, FALSE,
                            [status |-> 200, appointments |-> AsDate(series),
                             users_by_role |-> AsRole(roles)])]
    /\ UNCHANGED <<appointment, stock, user, healthrecord, medicine, nextId, now>>

(* ------------------------------ environment --------------------------- *)
\* the client has read the response; the worker takes the next request
Respond(p) ==
    /\ req[p].pc = "done"
    /\ req' = [req EXCEPT ![p] = Idle]
    /\ UNCHANGED <<appointment, stock, user, healthrecord, medicine, nextId, now>>

\* the clock advances
Tick(max) ==
    /\ now < max
    /\ now' = now + 1
    /\ UNCHANGED <<appointment, stock, user, healthrecord, medicine, nextId, req>>

Init ==
    /\ appointment = <<>>
    /\ stock = <<>>
    /\ user = <<>>
    /\ healthrecord = <<>>
    /\ medicine = <<>>
    /\ nextId = 1
    /\ now = 0
    /\ req = [p \in Procs |-> Idle]

(* ------------------- concurrent appointment creation ------------------ *)
CreateAppts == {[patient_id |-> "p1", doctor_id |-> "d1", offline_temp_id |-> "t1"],
                [patient_id |-> "p1", doctor_id |-> "d1", offline_temp_id |-> "t2"],
                [patient_id |-> Missing, doctor_id |-> "d1", offline_temp_id |-> "t1"]}

NextCreate ==
    \/ \E p \in Procs : \E a \in CreateAppts : create_appointment_call(p, a, MaxApptDocs)
    \/ \E p \in Procs : \E fail \in BOOLEAN : create_appointment_store(p, fail)
    \/ \E p \in Procs : Respond(p)

SpecCreate == Init /\ [][NextCreate]_vars

(* ------------------------------ bulk sync ----------------------------- *)
SyncBatches == UNION {[1..n -> CreateAppts] : n \in 0..MaxBatch}

NextBulk ==
    \/ \E p \in One : \E b \in SyncBatches : bulk_sync_call(p, b, MaxApptDocs)
    \/ \E p \in One : \E fail \in BOOLEAN : bulk_sync_item(p, fail)
    \/ \E p \in One : bulk_sync_return(p)
    \/ \E p \in One : \E a \in CreateAppts : create_appointment_call(p, a, MaxApptDocs)
    \/ \E p \in One : \E fail \in BOOLEAN : create_appointment_store(p, fail)
    \/ \E p \in One : Respond(p)

SpecBulk == Init /\ [][NextBulk]_vars

(* ------------------------------- stock -------------------------------- *)
StockInputs == {[facility_id |-> "f1", medicine_id |-> "m1", quantity |-> q, threshold |-> 0] : q \in {-1, 3}}
                  \cup {[facility_id |-> "f1", medicine_id |-> "m1", quantity |-> 3, threshold |-> -1]}
StockPatches == {[quantity |-> 5], [quantity |-> -1], [threshold |-> -1, location |-> "r1"],
                 [updated_at |-> -1], [_id |-> 0]}
IdStrings == {StrOfOid(n) : n \in 1..MaxStockDocs + 1} \cup {BadIdStr}

NextStock ==
    \/ \E p \in One : \E s \in StockInputs : create_stock_call(p, s, MaxStockDocs)
    \/ \E p \in One : \E fail \in BOOLEAN : create_stock_store(p, fail)
    \/ \E p \in One : \E sid \in IdStrings : \E d \in StockPatches : update_stock_call(p, sid, d)
    \/ \E p \in One : \E fail \in BOOLEAN : update_stock_update(p, fail)
    \/ \E p \in One : \E fail \in BOOLEAN : update_stock_readback(p, fail)
    \/ \E p \in One : Respond(p)
    \/ Tick(MaxTime)

SpecStock == Init /\ [][NextStock]_vars

(* --------------------------- racing stock patches --------------------- *)
RaceInputs == {[facility_id |-> "f1", medicine_id |-> "m1", quantity |-> 3, threshold |-> 0]}
RacePatches == {[quantity |-> 5], [quantity |-> 7, updated_at |-> -1]}
RaceIdStrings == {StrOfOid(n) : n \in 1..MaxRaceDocs} \cup {BadIdStr}

NextPatchRace ==
    \/ \E p \in One : \E s \in RaceInputs : create_stock_call(p, s, MaxRaceDocs)
    \/ \E p \in One : \E fail \in BOOLEAN : create_stock_store(p, fail)
    \/ \E p \in Procs : \E sid \in RaceIdStrings : \E d \in RacePatches : update_stock_call(p, sid, d)
    \/ \E p \in Procs : \E fail \in BOOLEAN : update_stock_update(p, fail)
    \/ \E p \in Procs : \E fail \in BOOLEAN : update_stock_readback(p, fail)
    \/ \E p \in Procs : Respond(p)

SpecPatchRace == Init /\ [][NextPatchRace]_vars

(* ------------------------------- users -------------------------------- *)
PlainAppts == {[patient_id |-> "p1", doctor_id |-> "d1", offline_temp_id |-> None]}
UserInputs == {[name |-> "n", role |-> r] : r \in {"patient", "doctor", "nurse"}}
AvailabilityBodies == {[online_status |-> TRUE], [online_status |-> FALSE, role |-> "admin"],
                       [role |-> "admin"]}
UserIdStrings == {StrOfOid(n) : n \in 1..MaxUserDocs} \cup {BadIdStr}
UserStockInputs == {[facility_id |-> "f1", medicine_id |-> "m1", quantity |-> 3, threshold |-> 0]}
UserStockPatches == {[role |-> "admin", online_status |-> TRUE]}

NextUser ==
    \/ \E p \in One : \E u \in UserInputs : create_user_call(p, u, MaxUserDocs)
    \/ \E p \in One : \E fail \in BOOLEAN : create_user_store(p, fail)
    \/ \E p \in One : \E uid \in UserIdStrings : \E b \in AvailabilityBodies :
          update_doctor_availability_call(p, uid, b)
    \/ \E p \in One : \E fail \in BOOLEAN : update_doctor_availability_update(p, fail)
    \/ \E p \in One : \E fail \in BOOLEAN : update_doctor_availability_readback(p, fail)
    \/ \E p \in One : \E a \in PlainAppts : create_appointment_call(p, a, MaxUserDocs)
    \/ \E p \in One : \E fail \in BOOLEAN : create_appointment_store(p, fail)
    \/ \E p \in One : \E s \in UserStockInputs : create_stock_call(p, s, MaxUserDocs)
    \/ \E p \in One : \E fail \in BOOLEAN : create_stock_store(p, fail)
    \/ \E p \in One : \E sid \in UserIdStrings : \E d \in UserStockPatches :
          update_stock_call(p, sid, d)
    \/ \E p \in One : \E fail \in BOOLEAN : update_stock_update(p, fail)
    \/ \E p \in One : \E fail \in BOOLEAN : update_stock_readback(p, fail)
    \/ \E p \in One : Respond(p)
    \/ Tick(MaxShortTime)

SpecUser == Init /\ [][NextUser]_vars

(* ------------------------------ listings ------------------------------ *)
ListAppts == {[patient_id |-> "p1", doctor_id |-> "d1", offline_temp_id |-> None],
              [patient_id |-> "p2", doctor_id |-> "d1", offline_temp_id |-> None],
              [patient_id |-> "", doctor_id |-> "d2", offline_temp_id |-> None]}
ListStock == {[facility_id |-> f, medicine_id |-> "m1", quantity |-> 3, threshold |-> 0] : f \in {"f1", "f2"}}
ListUsers == {[name |-> "n", role |-> r] : r \in {"patient", "doctor"}}
ListRecords == {[patient_id |-> "p1", doctor_id |-> None, visit_date |-> 1],
                [patient_id |-> "p2", doctor_id |-> "d1", visit_date |-> 2],
                [patient_id |-> "p1", doctor_id |-> "d1"]}
Text(t) == [some |-> TRUE, s |-> t]
NoText == [some |-> FALSE, s |-> <<>>]
\* the catalogue is loaded outside the HTTP surface
Catalogue == <<[_id |-> 101, name |-> Text(<<"P", "a">>), generic_name |-> NoText],
               [_id |-> 102, name |-> Text(<<"b">>), generic_name |-> Text(<<"A", "p">>)]>>
Queries == {NoText, Text(<<>>), Text(<<"p">>), Text(<<"a", "P">>)}
ListLimits == (-1..MaxLimit)
PatientParams == {None, "", "p1"}
DoctorParams == {None, "d1"}
FacilityParams == {None, "", "f1"}
MedicineParams == {None, "m1"}
RoleParams == {None, "", "doctor"}

InitList ==
    /\ appointment = <<>>
    /\ stock = <<>>
    /\ user = <<>>
    /\ healthrecord = <<>>
    /\ medicine = Catalogue
    /\ nextId = 1
    /\ now = 0
    /\ req = [p \in Procs |-> Idle]

NextList ==
    \/ \E a \in ListAppts : create_appointment_call(1, a, MaxListDocs)
    \/ \E fail \in BOOLEAN : create_appointment_store(1, fail)
    \/ \E x \in ListStock : create_stock_call(1, x, MaxListDocs)
    \/ \E fail \in BOOLEAN : create_stock_store(1, fail)
    \/ \E u \in ListUsers : create_user_call(1, u, MaxListDocs)
    \/ \E fail \in BOOLEAN : create_user_store(1, fail)
    \/ \E h \in ListRecords : create_health_record_call(1, h, MaxListDocs)
    \/ \E fail \in BOOLEAN : create_health_record_store(1, fail)
    \/ \E pid \in PatientParams, did \in DoctorParams,
          l \in ListLimits \cup {list_appointments_limit}, fail \in BOOLEAN :
          list_appointments(1, pid, did, l, fail)
    \/ \E q \in Queries, l \in ListLimits \cup {search_medicines_limit}, fail \in BOOLEAN :
          search_medicines(1, q, l, fail)
    \/ \E fid \in FacilityParams, mid \in MedicineParams,
          l \in ListLimits \cup {list_stock_limit}, fail \in BOOLEAN :
          list_stock(1, fid, mid, l, fail)
    \/ \E mid \in MedicineParams, fid \in FacilityParams, fail \in BOOLEAN :
          check_stock(1, mid, fid, fail)
    \/ \E r \in RoleParams, l \in ListLimits \cup {list_users_limit}, fail \in BOOLEAN :
          list_users(1, r, l, fail)
    \/ \E pid \in PatientParams, did \in DoctorParams,
          l \in ListLimits \cup {list_health_records_limit}, fail \in BOOLEAN :
          list_health_records(1, pid, did, l, fail)
    \/ Respond(1)
    \/ Tick(MaxShortTime)

SpecList == InitList /\ [][NextList]_vars

(* ------------------------------ analytics ----------------------------- *)
AnalyticsUsers == {[name |-> "n", role |-> r] : r \in {"patient", "doctor"}}
\* a lookback no datetime can hold
HugeDays == 10 * MaxClock
AnalyticsDays == (-1..MaxDays) \cup {analytics_summary_days, HugeDays}

NextAnalytics ==
    \/ \E a \in PlainAppts : create_appointment_call(1, a, MaxApptDocs)
    \/ \E fail \in BOOLEAN : create_appointment_store(1, fail)
    \/ \E u \in AnalyticsUsers : create_user_call(1, u, MaxApptDocs)
    \/ \E fail \in BOOLEAN : create_user_store(1, fail)
    \/ \E days \in AnalyticsDays, fail \in BOOLEAN : analytics_summary(1, days, fail)
    \/ Respond(1)
    \/ Tick(MaxClock)

SpecAnalytics == Init /\ [][NextAnalytics]_vars

(* ------------------------------ C1 ------------------------------------ *)
RECURSIVE IndicesWhere(_, _, _)
\* the indices k >= from of ok, in order, with ok[k] = b... counted from 1
IndicesWhere(ok, b, k) ==
    IF k > Len(ok) THEN <<>>
    ELSE IF ok[k] = b THEN <<k>> \o IndicesWhere(ok, b, k + 1)
    ELSE IndicesWhere(ok, b, k + 1)

BulkDone(p) ==
    /\ req[p].op = "bulk_sync" /\ req[p].pc = "done"
    /\ \A k \in 1..Len(req[p].batch) : ValidAppointment(req[p].batch[k])

\* C1: a bulk_sync over a batch of appointments answers 200 whatever store
\* calls failed; the items whose insert succeeded are, in order, the inserted
\* list (each with the id of a document now in the collection that carries
\* the item's fields), the items whose insert failed are, in order, the
\* errors list with an error text, and no item is in both or in neither.
C1_BulkSyncIndependent ==
    \A p \in Procs : BulkDone(p) =>
        LET r == req[p]
            I == IndicesWhere(r.ok, TRUE, 1)
            E == IndicesWhere(r.ok, FALSE, 1)
        IN /\ r.resp.status = 200
           /\ Len(r.ok) = Len(r.batch)
           /\ Len(r.resp.inserted) = Len(I)
           /\ Len(r.resp.errors) = Len(E)
           /\ \A j \in 1..Len(I) :
                 /\ r.resp.inserted[j].offline_temp_id = r.batch[I[j]].offline_temp_id
                 /\ \E d \in Range(appointment) :
                       /\ StrOfOid(d._id) = r.resp.inserted[j].id
                       /\ d.offline_temp_id = r.batch[I[j]].offline_temp_id
                       /\ d.patient_id = r.batch[I[j]].patient_id
                 /\ \A j2 \in 1..Len(I) :
                       j2 # j => r.resp.inserted[j2].id # r.resp.inserted[j].id
           /\ \A j \in 1..Len(E) :
                 /\ r.resp.errors[j].offline_temp_id = r.batch[E[j]].offline_temp_id
                 /\ r.resp.errors[j].error = "StoreError"

\* a batch of two whose first insert failed and whose second succeeded
C1_Witness ==
    \E p \in Procs : BulkDone(p) /\ req[p].ok = <<FALSE, TRUE>>

(* ------------------------------ C2 ------------------------------------ *)
InvalidItems(b) == {k \in 1..Len(b) : ~ValidAppointment(b[k])}

\* C2: a bulk_sync of N items of which exactly one, item k, lacks a required
\* field answers with N-1 insertions and exactly one error entry, which names
\* item k's offline_temp_id.
C2_OneInvalidItem ==
    \A p \in Procs :
        (/\ req[p].op = "bulk_sync" /\ req[p].pc = "done"
         /\ Cardinality(InvalidItems(req[p].batch)) = 1
         /\ \A j \in 1..Len(req[p].ok) : req[p].ok[j])
        => LET k == CHOOSE x \in InvalidItems(req[p].batch) : TRUE IN
           /\ req[p].resp.status = 200
           /\ Len(req[p].resp.inserted) = Len(req[p].batch) - 1
           /\ Len(req[p].resp.errors) = 1
           /\ req[p].resp.errors[1].offline_temp_id = req[p].batch[k].offline_temp_id

(* ------------------------------ C8 ------------------------------------ *)
CreateDone(p) ==
    /\ req[p].op = "create_appointment" /\ req[p].pc = "done"
    /\ ValidAppointment(req[p].appt)

Created(p) ==
    /\ req[p].resp.status = 201
    /\ \E d \in Range(appointment) :
          /\ StrOfOid(d._id) = req[p].resp.id
          /\ d.offline_temp_id = req[p].appt.offline_temp_id

\* C8: a create_appointment fails only when its own store call failed, and
\* two creations with distinct offline_temp_id whose store calls both went
\* through, in whatever order their steps interleave, both answer 201 with
\* distinct identifiers and both documents are in the collection.
C8_ConcurrentCreates ==
    /\ \A p \in Procs : CreateDone(p) => (req[p].resp.status = 201 <=> ~req[p].failed)
    /\ \A p, q \in Procs :
          (/\ p # q /\ CreateDone(p) /\ CreateDone(q)
           /\ req[p].appt.offline_temp_id # req[q].appt.offline_temp_id
           /\ ~req[p].failed /\ ~req[q].failed)
          => /\ Created(p) /\ Created(q)
             /\ req[p].resp.id # req[q].resp.id

\* both created, the second request having arrived while the first was in
\* flight and having reached the store before it
C8_Witness ==
    \E p, q \in Procs :
        /\ p # q /\ CreateDone(p) /\ CreateDone(q)
        /\ req[p].appt.offline_temp_id # req[q].appt.offline_temp_id
        /\ Created(p) /\ Created(q)
        /\ p \in req[q].conc
        /\ ObjectId(req[q].resp.id) < ObjectId(req[p].resp.id)

(* ------------------------------ C3 ------------------------------------ *)
\* the path parameter names a document of the stock collection
Resolves(s) == ObjectIdOk(s) /\ Matching(stock, ObjectId(s)) # {}

\* the step in which request p leaves its update step with an answer, the
\* store having served it
PatchAnswered(p) ==
    /\ req[p].op = "update_stock" /\ req[p].pc = "update"
    /\ req'[p].pc = "done" /\ ~req'[p].failed

\* C3: a PATCH /api/stock/{id} whose id does not resolve to a stock document
\* answers 404 and leaves the stock collection as it was.
C3_PatchUnknownId ==
    [][\A p \in Procs : (PatchAnswered(p) /\ ~Resolves(req[p].id))
            => (req'[p].resp.status = 404 /\ stock' = stock)]_vars

\* what the code does: 404 for a well-formed id of no document, 500 for a
\* string that is no ObjectId, no mutation in either case
C3_AsImplemented ==
    [][\A p \in Procs : (PatchAnswered(p) /\ ~Resolves(req[p].id))
            => /\ req'[p].resp.status = IF ObjectIdOk(req[p].id) THEN 404 ELSE 500
               /\ stock' = stock]_vars

(* ------------------------------ C4 ------------------------------------ *)
\* C4: every document of the stock collection has quantity >= 0 and
\* threshold >= 0.
C4_StockNonNegative ==
    \A d \in Range(stock) : d.quantity >= 0 /\ d.threshold >= 0

(* ------------------------------ C10 ----------------------------------- *)
PatchOk(p) ==
    /\ req[p].op = "update_stock" /\ req[p].pc = "done"
    /\ req[p].resp.status = 200

\* C10 as claimed: the document a successful patch returns has, for every
\* field f of the patch P, the value P[f].
C10_PatchReturnsMerged ==
    \A p \in Procs : PatchOk(p) =>
        \A f \in DOMAIN req[p].data : req[p].resp.doc[f] = req[p].data[f]

\* C10 as amended: the document a successful patch returns is the addressed
\* document as read back; a field f of P other than updated_at has the value
\* P[f] unless the update of another request set f on the same document
\* between this request's update and its read-back, and then it has the value
\* the last such update set; updated_at is the timestamp of the last update
\* applied before the read-back, never P's value.
C10_PatchReturnsReadBack ==
    \A p \in Procs : PatchOk(p) =>
        LET r == req[p] IN
        /\ r.resp.doc._id = r.id
        /\ \A f \in (DOMAIN r.data) \cup {"updated_at"} :
              r.resp.doc[f] = IF f \in DOMAIN r.seen THEN r.seen[f]
                              ELSE IF f = "updated_at" THEN r.at
                              ELSE r.data[f]

\* a patch of quantity answered with the quantity another request's patch
\* set in between
C10_Witness ==
    \E p \in Procs :
        /\ PatchOk(p)
        /\ "quantity" \in DOMAIN req[p].data
        /\ "quantity" \in DOMAIN req[p].seen
        /\ req[p].resp.doc.quantity # req[p].data.quantity

(* ------------------------------ C9 ------------------------------------ *)
\* the step is request p's availability update of the user at position i
AvailabilityStepOn(p, i) ==
    /\ req[p].op = "update_doctor_availability" /\ req[p].pc = "update"
    /\ req'[p].pc = "readback"
    /\ ObjectIdOk(req[p].id) /\ ObjectId(req[p].id) = user[i]._id

\* the step is request p's insert of a user
CreateUserStep(p) ==
    /\ req[p].op = "create_user" /\ req[p].pc = "store"
    /\ req'[p].pc = "done" /\ ~req'[p].failed

C9_Step ==
    /\ Len(user') >= Len(user)
    \* a user document appears only by create_user, with the role of the payload
    /\ \A i \in (Len(user) + 1)..Len(user') :
          \E p \in Procs : CreateUserStep(p) /\ user'[i].role = req[p].user.role
                           /\ Len(user') = Len(user) + 1
    /\ \A i \in 1..Len(user) :
          \* the role never changes
          /\ user'[i].role = user[i].role
          \* online_status, and anything else, changes only by the availability
          \* update addressed to this user, which sets online_status to the
          \* payload's value and changes nothing but it and updated_at
          /\ user'[i] # user[i] =>
                \E p \in Procs :
                    /\ AvailabilityStepOn(p, i)
                    /\ user'[i].online_status = req[p].data.online_status
                    /\ DOMAIN user'[i] = DOMAIN user[i]
                    /\ \A f \in DOMAIN user[i] \ {"online_status", "updated_at"} :
                          user'[i][f] = user[i][f]
                    /\ \A j \in 1..Len(user) : j # i => user'[j] = user[j]
    \* an availability update leaves every other collection as it was
    /\ (\E p \in Procs : req[p].op = "update_doctor_availability" /\ req'[p] # req[p])
          => UNCHANGED <<appointment, stock, healthrecord, medicine>>

\* C9: across every step of the HTTP surface a user's role stays the role it
\* was created with, a user document changes only by the availability update
\* addressed to it, and that update changes only online_status and updated_at
\* of that user and nothing of any other user or collection.
C9_RoleAndAvailabilityFrame == [][C9_Step]_vars

\* an availability request whose body also carried role = "admin" has been
\* answered 200 for a user that is still a patient, beside a second document
C9_Witness ==
    \E p \in Procs :
        /\ req[p].op = "update_doctor_availability" /\ req[p].pc = "done"
        /\ req[p].resp.status = 200
        /\ "role" \in DOMAIN req[p].data
        /\ req[p].resp.doc.role = "patient"
        /\ req[p].resp.doc.updated_at > req[p].resp.doc.created_at
        /\ Len(user) + Len(stock) = MaxUserDocs

(* ------------------------------ C5 ------------------------------------ *)
FilterOps == {"list_appointments", "list_stock", "check_stock", "list_users", "list_health_records"}

FilterFields(op) ==
    IF op \in {"list_appointments", "list_health_records"} THEN {"patient_id", "doctor_id"}
    ELSE IF op \in {"list_stock", "check_stock"} THEN {"facility_id", "medicine_id"}
    ELSE {"role"}

CollectionOf(op) ==
    IF op = "list_appointments" THEN appointment
    ELSE IF op \in {"list_stock", "check_stock"} THEN stock
    ELSE IF op = "list_users" THEN user
    ELSE IF op = "list_health_records" THEN healthrecord
    ELSE medicine

Listed(p, ops) ==
    /\ req[p].pc = "done" /\ req[p].op \in ops
    /\ req[p].resp.status = 200

\* the documents of a listing agree with the parameters in active on every
\* field, and all such documents are listed when they fit the limit
FiltersExactly(p, active) ==
    LET r == req[p]
        coll == CollectionOf(r.op)
        match(d) == \A f \in active : d[f] = r.args[f]
        M == {i \in 1..Len(coll) : match(coll[i])}
    IN /\ \A k \in 1..Len(r.resp.items) : match(r.resp.items[k])
       /\ (r.op = "check_stock" \/ Cardinality(M) <= r.args.limit)
             => \A i \in M : \E k \in 1..Len(r.resp.items) :
                                r.resp.items[k] = Stringified(coll[i])

\* C5: a listing returns only documents that equal the supplied value on
\* every supplied filter parameter, a parameter being a filter clause exactly
\* when the request carries it; and it returns every such document when
\* their number is within the limit.
C5_FiltersExact ==
    \A p \in Procs : Listed(p, FilterOps) =>
        FiltersExactly(p, {f \in FilterFields(req[p].op) : req[p].args[f] # None})

\* what the code does: a parameter is a filter clause when it is present and
\* not the empty string
C5_AsImplemented ==
    \A p \in Procs : Listed(p, FilterOps) =>
        FiltersExactly(p, {f \in FilterFields(req[p].op) : Truthy(req[p].args[f])})

(* ------------------------------ C6 ------------------------------------ *)
LimitOps == {"list_appointments", "search_medicines", "list_stock", "list_users",
             "list_health_records"}

EmptyFilter(r) ==
    IF r.op = "search_medicines" THEN ~r.args.q.some
    ELSE \A f \in FilterFields(r.op) : r.args[f] = None

\* C6: a listing or search with limit L returns at most L items, and without
\* a filter it returns the whole collection only when that has at most L
\* documents. (Stated for L >= 0: no result has a negative length.)
C6_LimitCaps ==
    \A p \in Procs : (Listed(p, LimitOps) /\ req[p].args.limit >= 0) =>
        LET r == req[p] IN
        /\ Len(r.resp.items) <= r.args.limit
        /\ (EmptyFilter(r) /\ Len(r.resp.items) = Len(CollectionOf(r.op)))
              => Len(CollectionOf(r.op)) <= r.args.limit

\* what the code does: L >= 1 caps the result at L, L = 0 does not cap it,
\* L < 0 caps it at -L
C6_AsImplemented ==
    \A p \in Procs : Listed(p, LimitOps) =>
        LET r == req[p]
            L == r.args.limit
        IN /\ L >= 1 => Len(r.resp.items) <= L
           /\ L < 0 => Len(r.resp.items) <= 0 - L
           /\ (L = 0 /\ EmptyFilter(r)) => Len(r.resp.items) = Len(CollectionOf(r.op))

(* ------------------------------ C7 ------------------------------------ *)
Summarised(p) == req[p].op = "analytics_summary" /\ req[p].pc = "done"

\* the appointments created within [at - days, at]
InWindow(r) ==
    {i \in 1..Len(appointment) :
        /\ r.args.at - r.args.days * TicksPerDay <= appointment[i].created_at
        /\ appointment[i].created_at <= r.args.at}

\* C7: the appointment series of analytics_summary(days = N) has exactly one
\* bucket per UTC day on which an appointment was created within
\* [now - N days, now], each with the number of those appointments; older
\* appointments are in no bucket, empty days have no bucket, and the buckets
\* are in ascending date order. The call fails only when the store fails or
\* now - N days is no datetime.
C7_AppointmentSeries ==
    \A p \in Procs : Summarised(p) =>
        LET r == req[p]
            W == InWindow(r)
            days == {DateToString(appointment[i].created_at) : i \in W}
            S == r.resp.appointments
        IN IF r.resp.status = 200
           THEN /\ Len(S) = Cardinality(days)
                /\ \A k \in 1..Len(S) :
                      /\ S[k].date \in days
                      /\ S[k].count = Cardinality({i \in W :
                                         DateToString(appointment[i].created_at) = S[k].date})
                /\ \A k \in 1..Len(S) - 1 : S[k].date < S[k + 1].date
           ELSE r.failed \/ ~Representable(r.args.at - r.args.days * TicksPerDay)

\* a summary of two buckets on different days, one appointment being older
\* than the window and one created exactly at its start
C7_Witness ==
    \E p \in Procs :
        /\ Summarised(p) /\ req[p].resp.status = 200
        /\ Len(req[p].resp.appointments) = 2
        /\ \E i \in 1..Len(appointment) : i \notin InWindow(req[p])
        /\ \E i \in InWindow(req[p]) :
              appointment[i].created_at = req[p].args.at - req[p].args.days * TicksPerDay

====
